---- MODULE Spec2Model ----
(***************************************************************************)
(* Document classification against a topic catalog.                        *)
(*   src/paralelCategorization/main.cpp   : MPI manager / worker program   *)
(*   src/documentCategorization/main.cpp  : single-process program         *)
(* Strings are sequences of character codes (ASCII).  Positions are        *)
(* 0-based as in std::string.                                              *)
(***************************************************************************)
EXTENDS Integers, Sequences, FiniteSets, TLC

\* ------------------------------------------------------------- characters
Colon   == 58
Comma   == 44
Semi    == 59
At      == 64
Percent == 37
Tab     == 9
Newline == 10
Zero    == 48
Slash   == 47

\* std::string::npos
npos == -1

\* ------------------------------------------------------------------ bounds
\* processes of the run profile (ranks 0..MaxProcs-1)
MaxProcs == 4
\* documents in ./sample_documents of the run profile
MaxDocs == 4
\* bytes lying behind a receive buffer before the first NUL
MaxTail == 1
\* length of a topic name of the codec profile
MaxTopicLen == 1
\* length of the keyword part of a catalog line of the codec profile
MaxKeysLen == 2
\* length of a document text of the matcher profile
MaxTextLen == 4

\* ----------------------------------------------------------- std::string
Min(S) == CHOOSE x \in S : \A y \in S : x <= y

\* s.substr(start, n)
substr(s, start, n) == SubSeq(s, start + 1, start + n)

\* s.substr(start)
substrFrom(s, start) == SubSeq(s, start + 1, Len(s))

MatchAt(s, t, p) ==
    /\ p + Len(t) <= Len(s)
    /\ \A k \in 1..Len(t) : s[p + k] = t[k]

\* s.find(t, from): least position >= from where t occurs, else npos
find(s, t, from) ==
    LET c == {p \in from..(Len(s) - Len(t)) : MatchAt(s, t, p)}
    IN  IF c = {} THEN npos ELSE Min(c)

\* std::string operator< (std::map key order)
LexLess(s, t) ==
    \E k \in 1..Len(t) :
        /\ \A j \in 1..(k - 1) : j <= Len(s) /\ s[j] = t[j]
        /\ (k > Len(s) \/ (k <= Len(s) /\ s[k] < t[k]))

RECURSIVE Concat(_)
Concat(ss) == IF ss = <<>> THEN <<>> ELSE Head(ss) \o Concat(Tail(ss))

\* operator<<(ostream&, int)
RECURSIVE Decimal(_)
Decimal(n) ==
    IF n < 10 THEN <<Zero + n>>
    ELSE Decimal(n \div 10) \o <<Zero + (n % 10)>>

\* ------------------------------------------------------------- std::map
\* a catalog is a function from topic names to keyword lists; iteration is
\* in ascending key order
EmptyCatalog == <<>>

RECURSIVE SortedSeq(_)
SortedSeq(S) ==
    IF S = {} THEN <<>>
    ELSE LET m == CHOOSE x \in S : \A y \in S \ {x} : LexLess(x, y)
         IN  <<m>> \o SortedSeq(S \ {m})

Topics(c) == SortedSeq(DOMAIN c)

\* catalog.emplace(k, v): no effect when the key is present
emplace(c, k, v) == IF k \in DOMAIN c THEN c ELSE c @@ (k :> v)

\* catalog[k] = v: overwrites
assign(c, k, v) == [x \in (DOMAIN c) \cup {k} |-> IF x = k THEN v ELSE c[x]]

\* ------------------------------------------------------------- tokenize
RECURSIVE TokenizeFrom(_, _, _, _)
TokenizeFrom(s, del, start, tokens) ==
    LET end == find(s, del, start)
    IN  IF end # npos
        THEN TokenizeFrom(s, del, end + Len(del),
                          Append(tokens, substr(s, start, end - start)))
        ELSE Append(tokens, substrFrom(s, start))

tokenize(s, del) == TokenizeFrom(s, del, 0, <<>>)

\* readCatalog's loop over the lines of the catalog file
RECURSIVE LoadLines(_, _)
LoadLines(lines, c) ==
    IF lines = <<>> THEN c
    ELSE LET vector == tokenize(Head(lines), <<At, Percent>>)
         IN  LoadLines(Tail(lines),
                       emplace(c, vector[1], tokenize(vector[2], <<Comma>>)))

\* ---------------------------------------------------------- catalog codec
EncodeItems(items) ==
    Concat([k \in 1..Len(items) |-> items[k] \o <<Comma>>])

EncodeEntry(c, topic) ==
    topic \o <<Colon>> \o EncodeItems(c[topic]) \o <<Semi>>

\* the manager's stringstream loop
Encode(c) ==
    LET keys == Topics(c)
    IN  Concat([k \in 1..Len(keys) |-> EncodeEntry(c, keys[k])])

\* std::getline(stream, str, delim) on the unread part s of a stream
GetlineTok(s, delim) ==
    LET p == find(s, <<delim>>, 0)
    IN  IF p = npos THEN s ELSE substr(s, 0, p)

GetlineRest(s, delim) ==
    LET p == find(s, <<delim>>, 0)
    IN  IF p = npos THEN <<>> ELSE substrFrom(s, p + 1)

RECURSIVE DecodeItems(_, _)
DecodeItems(s, items) ==
    IF s = <<>> THEN items
    ELSE DecodeItems(GetlineRest(s, Comma), Append(items, GetlineTok(s, Comma)))

\* the worker's getline loops
RECURSIVE DecodeEntries(_, _)
DecodeEntries(s, c) ==
    IF s = <<>> THEN c
    ELSE LET entry    == GetlineTok(s, Semi)
             category == GetlineTok(entry, Colon)
             items    == DecodeItems(GetlineRest(entry, Colon), <<>>)
         IN  DecodeEntries(GetlineRest(s, Semi), assign(c, category, items))

Decode(s) == DecodeEntries(s, EmptyCatalog)

\* ------------------------------------------------------------------ state
VARIABLES
    env,        \* what the run is started on: process count, files, transport
    pc,         \* pc[r]: where process r stands in main
    catalog,    \* catalog[r]: the global catalog map of process r
    mgr,        \* the manager's locals
    wk,         \* wk[r]: the locals of worker r
    bcast,      \* payloads the root has put into MPI_Bcast, in order
    arrived,    \* ranks that have called MPI_Barrier
    chan,       \* chan[r]: messages sent to r and not yet received
    sentLog,    \* every MPI_Send of the manager, in order
    sink,       \* contents of classification_results.txt
    sq          \* the single-process program: its position, locals, output

vars == <<sq, env, pc, catalog, mgr, wk, bcast, arrived, chan, sentLog, sink>>

Ranks   == 0..(env.size - 1)
Workers == 1..(env.size - 1)

\* documents[k] (0-based) of getAllFilesInDirectory: document k + 1
NumDocs == Len(env.docs)

\* the path directory_iterator gives for document d: "./d<d>"
DocPath(d) == <<46, Slash, 100>> \o Decimal(d)

\* getFileNameFromPath: what follows the last '/'
getFileNameFromPath(path) ==
    LET slashes == {p \in 1..Len(path) : path[p] = Slash}
    IN  IF slashes = {} THEN path
        ELSE SubSeq(path, (CHOOSE p \in slashes : \A q \in slashes : q <= p) + 1,
                    Len(path))

MgrInit ==
    [serialized_catalog |-> <<>>, numDocumentsPerWorker |-> 0,
     remainingDocuments |-> 0, startIdx |-> 0, i |-> 0, j |-> 0,
     numDocsToSend |-> 0]

WorkerInit ==
    [catalogSize |-> 0, received |-> <<>>, numDocsToReceive |-> 0, i |-> 0,
     docSize |-> 0, document |-> 0, text |-> <<>>, TopicsList |-> <<>>,
     t |-> 0, k |-> 0, pos |-> npos, count |-> 0, out |-> <<>>, e |-> 0,
     handed |-> <<>>]

\* the single-process program's locals; it stands idle in an MPI run
SqIdle ==
    [pc |-> "idle", catalog |-> EmptyCatalog, files |-> <<>>, f |-> 0,
     text |-> <<>>, cur |-> <<>>, t |-> 0, k |-> 0, pos |-> npos, count |-> 0,
     occurrences |-> <<>>, matches |-> <<>>, csv |-> <<>>,
     relevantTopics |-> <<>>, run |-> 0,
     previous |-> [files |-> <<>>, matches |-> <<>>, relevantTopics |-> <<>>]]

\* the state after process start of the MPI program, for a given environment
Start(e) ==
    /\ env = e
    /\ pc = [r \in 0..(e.size - 1) |-> "start"]
    /\ catalog = [r \in 0..(e.size - 1) |-> EmptyCatalog]
    /\ mgr = MgrInit
    /\ wk = [r \in 1..(e.size - 1) |-> WorkerInit]
    /\ bcast = <<>>
    /\ arrived = {}
    /\ chan = [r \in 1..(e.size - 1) |-> <<>>]
    /\ sentLog = <<>>
    /\ sink = <<>>
    /\ sq = SqIdle

\* ------------------------------------------------------- main, every rank
\* lines 191-195: MPI_Abort ends every process of the job
SizeCheckAbort(r) ==
    /\ pc[r] = "start"
    /\ env.size < 2
    /\ pc' = [q \in Ranks |-> "aborted"]
    /\ UNCHANGED <<sq, env, catalog, mgr, wk, bcast, arrived, chan, sentLog, sink>>

\* mutant of ManagerStart: rank 0 goes on whatever the process count
ManagerStartUnchecked ==
    /\ pc[0] = "start"
    /\ pc' = [pc EXCEPT ![0] = "readCatalog"]
    /\ UNCHANGED <<sq, env, catalog, mgr, wk, bcast, arrived, chan, sentLog, sink>>

\* line 197: rank 0 goes on to readCatalog
ManagerStart ==
    /\ pc[0] = "start"
    /\ env.size >= 2
    /\ pc' = [pc EXCEPT ![0] = "readCatalog"]
    /\ UNCHANGED <<sq, env, catalog, mgr, wk, bcast, arrived, chan, sentLog, sink>>

\* lines 197, 217: a worker skips the manager branch and calls MPI_Barrier
WorkerStart(r) ==
    /\ r \in Workers
    /\ pc[r] = "start"
    /\ pc' = [pc EXCEPT ![r] = "barrier"]
    /\ arrived' = arrived \cup {r}
    /\ UNCHANGED <<sq, env, catalog, mgr, wk, bcast, chan, sentLog, sink>>

\* line 217: MPI_Barrier returns once every rank has called it
BarrierLeave(r) ==
    /\ pc[r] = "barrier"
    /\ arrived = Ranks
    /\ pc' = [pc EXCEPT ![r] = IF r = 0 THEN "enumerate" ELSE "bcastSize"]
    /\ UNCHANGED <<sq, env, catalog, mgr, wk, bcast, arrived, chan, sentLog, sink>>

\* line 280
Finalize(r) ==
    /\ pc[r] = "finalize"
    /\ pc' = [pc EXCEPT ![r] = "done"]
    /\ UNCHANGED <<sq, env, catalog, mgr, wk, bcast, arrived, chan, sentLog, sink>>

\* ---------------------------------------------------------------- manager
\* mutant of ReadCatalogMissing: the failed open goes unnoticed and the
\* manager carries on with the empty catalog
ReadCatalogMissingIgnored ==
    /\ pc[0] = "readCatalog"
    /\ ~env.catalogFile.exists
    /\ pc' = [pc EXCEPT ![0] = "bcastSize"]
    /\ UNCHANGED <<sq, env, catalog, mgr, wk, bcast, arrived, chan, sentLog, sink>>

\* lines 45-54: the catalog file cannot be opened; the exception leaves main
ReadCatalogMissing ==
    /\ pc[0] = "readCatalog"
    /\ ~env.catalogFile.exists
    /\ pc' = [pc EXCEPT ![0] = "terminated"]
    /\ UNCHANGED <<sq, env, catalog, mgr, wk, bcast, arrived, chan, sentLog, sink>>

readCatalog(lines) == LoadLines(lines, EmptyCatalog)

\* lines 45-64
ReadCatalog ==
    /\ pc[0] = "readCatalog"
    /\ env.catalogFile.exists
    /\ catalog' = [catalog EXCEPT ![0] = readCatalog(env.catalogFile.lines)]
    /\ pc' = [pc EXCEPT ![0] = "bcastSize"]
    /\ UNCHANGED <<sq, env, mgr, wk, bcast, arrived, chan, sentLog, sink>>

\* a collective that synchronizes returns at the root only when every other
\* rank is inside the same call
BcastReady(label) ==
    env.bcastSync => \A w \in Workers : pc[w] = label

\* lines 200-213
ManagerBcastSize ==
    /\ pc[0] = "bcastSize"
    /\ BcastReady("bcastSize")
    /\ mgr' = [mgr EXCEPT !.serialized_catalog = Encode(catalog[0])]
    /\ bcast' = Append(bcast, Len(Encode(catalog[0])))
    /\ pc' = [pc EXCEPT ![0] = "bcastData"]
    /\ UNCHANGED <<sq, env, catalog, wk, arrived, chan, sentLog, sink>>

\* line 214
ManagerBcastData ==
    /\ pc[0] = "bcastData"
    /\ BcastReady("bcastData")
    /\ bcast' = Append(bcast, mgr.serialized_catalog)
    /\ pc' = [pc EXCEPT ![0] = "barrierCall"]
    /\ UNCHANGED <<sq, env, catalog, mgr, wk, arrived, chan, sentLog, sink>>

\* line 217, rank 0
ManagerBarrier ==
    /\ pc[0] = "barrierCall"
    /\ pc' = [pc EXCEPT ![0] = "barrier"]
    /\ arrived' = arrived \cup {0}
    /\ UNCHANGED <<sq, env, catalog, mgr, wk, bcast, chan, sentLog, sink>>

\* MPI_Send to worker w: a synchronous transport completes the send only
\* when w is waiting in the matching MPI_Recv
SendReady(w) ==
    env.sendSync =>
        /\ pc[w] \in {"recvCount", "recvDocSize", "recvDoc"}
        /\ chan[w] = <<>>

Send(w, kind, val) ==
    /\ chan' = [chan EXCEPT ![w] = Append(@, [kind |-> kind, val |-> val])]
    /\ sentLog' = Append(sentLog, [to |-> w, kind |-> kind, val |-> val])

\* lines 221-228
Enumerate ==
    /\ pc[0] = "enumerate"
    /\ mgr' = [mgr EXCEPT
                 !.numDocumentsPerWorker = NumDocs \div (env.size - 1),
                 !.remainingDocuments = NumDocs % (env.size - 1),
                 !.startIdx = 0,
                 !.i = 1]
    /\ pc' = [pc EXCEPT ![0] = IF 1 < env.size THEN "sendCount" ELSE "finalize"]
    /\ UNCHANGED <<sq, env, catalog, wk, bcast, arrived, chan, sentLog, sink>>

\* mutant of NumDocsToSend: the remainder test is off by one
NumDocsToSendStrict(numDocumentsPerWorker, remainingDocuments, i) ==
    numDocumentsPerWorker + (IF i < remainingDocuments THEN 1 ELSE 0)

\* line 230
NumDocsToSend(numDocumentsPerWorker, remainingDocuments, i) ==
    numDocumentsPerWorker + (IF i <= remainingDocuments THEN 1 ELSE 0)

\* where the manager stands after the j loop's test for worker i
AfterDocs(i, j, n) ==
    IF j < n THEN "sendDocSize"
    ELSE IF i + 1 < env.size THEN "sendCount" ELSE "finalize"

\* lines 230-233
SendCount ==
    /\ pc[0] = "sendCount"
    /\ SendReady(mgr.i)
    /\ LET n == NumDocsToSend(mgr.numDocumentsPerWorker,
                              mgr.remainingDocuments, mgr.i)
       IN  /\ Send(mgr.i, "count", n)
           /\ mgr' = [mgr EXCEPT
                        !.numDocsToSend = n,
                        !.j = 0,
                        !.i = IF 0 < n THEN @ ELSE @ + 1]
           /\ pc' = [pc EXCEPT ![0] = AfterDocs(mgr.i, 0, n)]
    /\ UNCHANGED <<sq, env, catalog, wk, bcast, arrived, sink>>

\* lines 235-236
SendDocSize ==
    /\ pc[0] = "sendDocSize"
    /\ SendReady(mgr.i)
    /\ Send(mgr.i, "docSize", Len(DocPath(mgr.startIdx + 1)) + 1)
    /\ pc' = [pc EXCEPT ![0] = "sendDoc"]
    /\ UNCHANGED <<sq, env, catalog, mgr, wk, bcast, arrived, sink>>

\* mutant of SendDoc: startIdx is not advanced
SendDocNoAdvance ==
    /\ pc[0] = "sendDoc"
    /\ SendReady(mgr.i)
    /\ Send(mgr.i, "doc", mgr.startIdx + 1)
    /\ mgr' = [mgr EXCEPT
                 !.j = @ + 1,
                 !.i = IF mgr.j + 1 < mgr.numDocsToSend THEN @ ELSE @ + 1]
    /\ pc' = [pc EXCEPT ![0] = AfterDocs(mgr.i, mgr.j + 1, mgr.numDocsToSend)]
    /\ UNCHANGED <<sq, env, catalog, wk, bcast, arrived, sink>>

\* lines 237-238 and the loop steps of lines 233, 228
SendDoc ==
    /\ pc[0] = "sendDoc"
    /\ SendReady(mgr.i)
    /\ Send(mgr.i, "doc", mgr.startIdx + 1)
    /\ mgr' = [mgr EXCEPT
                 !.startIdx = @ + 1,
                 !.j = @ + 1,
                 !.i = IF mgr.j + 1 < mgr.numDocsToSend THEN @ ELSE @ + 1]
    /\ pc' = [pc EXCEPT ![0] = AfterDocs(mgr.i, mgr.j + 1, mgr.numDocsToSend)]
    /\ UNCHANGED <<sq, env, catalog, wk, bcast, arrived, sink>>

\* ----------------------------------------------------------------- worker
\* line 246
WorkerBcastSize(r) ==
    /\ r \in Workers
    /\ pc[r] = "bcastSize"
    /\ Len(bcast) >= 1
    /\ wk' = [wk EXCEPT ![r].catalogSize = bcast[1]]
    /\ pc' = [pc EXCEPT ![r] = "bcastData"]
    /\ UNCHANGED <<sq, env, catalog, mgr, bcast, arrived, chan, sentLog, sink>>

\* lines 247-248: catalogSize bytes arrive in new char[catalogSize]
WorkerBcastData(r) ==
    /\ r \in Workers
    /\ pc[r] = "bcastData"
    /\ Len(bcast) >= 2
    /\ wk' = [wk EXCEPT ![r].received = substr(bcast[2], 0, wk[r].catalogSize)]
    /\ pc' = [pc EXCEPT ![r] = "decode"]
    /\ UNCHANGED <<sq, env, catalog, mgr, bcast, arrived, chan, sentLog, sink>>

\* line 251: operator<< reads the buffer as a C string; the buffer holds no
\* terminating NUL, so the string runs on through the bytes behind it
CString(buffer, tail) == buffer \o tail

\* lines 250-266
WorkerDecode(r) ==
    /\ r \in Workers
    /\ pc[r] = "decode"
    /\ catalog' = [catalog EXCEPT
                     ![r] = DecodeEntries(CString(wk[r].received, env.heapTail[r]), @)]
    /\ pc' = [pc EXCEPT ![r] = "recvCount"]
    /\ UNCHANGED <<sq, env, mgr, wk, bcast, arrived, chan, sentLog, sink>>

\* where a worker stands after the loop test of line 271
AfterDoc(i, n) == IF i < n THEN "recvDocSize" ELSE "finalize"

\* lines 267-271
WorkerRecvCount(r) ==
    /\ r \in Workers
    /\ pc[r] = "recvCount"
    /\ chan[r] # <<>>
    /\ wk' = [wk EXCEPT ![r].numDocsToReceive = Head(chan[r]).val, ![r].i = 0]
    /\ chan' = [chan EXCEPT ![r] = Tail(@)]
    /\ pc' = [pc EXCEPT ![r] = AfterDoc(0, Head(chan[r]).val)]
    /\ UNCHANGED <<sq, env, catalog, mgr, bcast, arrived, sentLog, sink>>

\* lines 273-274
WorkerRecvDocSize(r) ==
    /\ r \in Workers
    /\ pc[r] = "recvDocSize"
    /\ chan[r] # <<>>
    /\ wk' = [wk EXCEPT ![r].docSize = Head(chan[r]).val]
    /\ chan' = [chan EXCEPT ![r] = Tail(@)]
    /\ pc' = [pc EXCEPT ![r] = "recvDoc"]
    /\ UNCHANGED <<sq, env, catalog, mgr, bcast, arrived, sentLog, sink>>

\* lines 275-277
WorkerRecvDoc(r) ==
    /\ r \in Workers
    /\ pc[r] = "recvDoc"
    /\ chan[r] # <<>>
    /\ wk' = [wk EXCEPT ![r].document = Head(chan[r]).val]
    /\ chan' = [chan EXCEPT ![r] = Tail(@)]
    /\ pc' = [pc EXCEPT ![r] = "open"]
    /\ UNCHANGED <<sq, env, catalog, mgr, bcast, arrived, sentLog, sink>>

\* ------------------------------------------------------- classifyDocument
\* the scan counter is capped above every count that two keywords can reach
\* in a bounded text
CountCap == 2 * MaxTextLen + 1

\* mutant of OpenFails: the document is skipped and the loop of line 271
\* goes on
OpenFailsSkipped(r) ==
    /\ r \in Workers
    /\ pc[r] = "open"
    /\ ~env.docs[wk[r].document].readable
    /\ wk' = [wk EXCEPT ![r].i = @ + 1, ![r].docSize = 0, ![r].document = 0]
    /\ pc' = [pc EXCEPT ![r] = IF wk[r].i + 1 < wk[r].numDocsToReceive
                               THEN "recvDocSize" ELSE "finalize"]
    /\ UNCHANGED <<sq, env, catalog, mgr, bcast, arrived, chan, sentLog, sink>>

\* lines 111-117: the document cannot be opened; the exception leaves main
OpenFails(r) ==
    /\ r \in Workers
    /\ pc[r] = "open"
    /\ ~env.docs[wk[r].document].readable
    /\ pc' = [pc EXCEPT ![r] = "terminated"]
    /\ UNCHANGED <<sq, env, catalog, mgr, wk, bcast, arrived, chan, sentLog, sink>>

\* lines 111-128: getline drops the line ends
OpenRead(r) ==
    /\ r \in Workers
    /\ pc[r] = "open"
    /\ env.docs[wk[r].document].readable
    /\ wk' = [wk EXCEPT ![r].text = Concat(env.docs[wk[r].document].lines),
                        ![r].TopicsList = <<>>,
                        ![r].t = 1]
    /\ pc' = [pc EXCEPT ![r] = "topic"]
    /\ UNCHANGED <<sq, env, catalog, mgr, bcast, arrived, chan, sentLog, sink>>

\* lines 129-131: the next topic of the catalog, or the end of the loop
NextTopic(r) ==
    /\ r \in Workers
    /\ pc[r] = "topic"
    /\ IF wk[r].t <= Len(Topics(catalog[r]))
       THEN /\ wk' = [wk EXCEPT ![r].count = 0, ![r].k = 1]
            /\ pc' = [pc EXCEPT ![r] = "term"]
       ELSE /\ wk' = wk
            /\ pc' = [pc EXCEPT ![r] = "wopen"]
    /\ UNCHANGED <<sq, env, catalog, mgr, bcast, arrived, chan, sentLog, sink>>

CurTopic(r) == Topics(catalog[r])[wk[r].t]
CurTerm(r)  == catalog[r][CurTopic(r)][wk[r].k]

\* mutant of EmplaceBack: a topic without a match gets no entry
EmplaceBackNonZero(list, topic, count) ==
    IF count > 0 THEN Append(list, <<topic, count>>) ELSE list

\* line 140: result.TopicsList.emplace_back(topic, count)
EmplaceBack(list, topic, count) == Append(list, <<topic, count>>)

\* lines 132-133, 140: the next keyword and its first find, or emplace_back
NextTerm(r) ==
    /\ r \in Workers
    /\ pc[r] = "term"
    /\ IF wk[r].k <= Len(catalog[r][CurTopic(r)])
       THEN /\ wk' = [wk EXCEPT ![r].pos = find(wk[r].text, CurTerm(r), 0)]
            /\ pc' = [pc EXCEPT ![r] = "scan"]
       ELSE /\ wk' = [wk EXCEPT
                        ![r].TopicsList = EmplaceBack(@, CurTopic(r), wk[r].count),
                        ![r].t = @ + 1,
                        ![r].count = 0,
                        ![r].k = 0]
            /\ pc' = [pc EXCEPT ![r] = "topic"]
    /\ UNCHANGED <<sq, env, catalog, mgr, bcast, arrived, chan, sentLog, sink>>

\* mutant of Resume: the scan resumes one character on, so occurrences
\* may overlap
ResumeOverlap(pos, term) == pos + 1

\* line 135: where the scan resumes after an occurrence at pos
Resume(pos, term) == pos + Len(term)

\* lines 134-137: one turn of the while loop, or its end
Scan(r) ==
    /\ r \in Workers
    /\ pc[r] = "scan"
    /\ IF wk[r].pos # npos
       THEN /\ wk' = [wk EXCEPT
                        ![r].pos = find(wk[r].text, CurTerm(r),
                                        Resume(wk[r].pos, CurTerm(r))),
                        ![r].count = IF @ < CountCap THEN @ + 1 ELSE @]
            /\ pc' = pc
       ELSE /\ wk' = [wk EXCEPT ![r].k = @ + 1]
            /\ pc' = [pc EXCEPT ![r] = "term"]
    /\ UNCHANGED <<sq, env, catalog, mgr, bcast, arrived, chan, sentLog, sink>>

\* ----------------------------------------------------- writeResultsToFile
\* the locals of classifyDocument go out of scope; line 271's ++i
EndDoc(w) ==
    [w EXCEPT !.i = @ + 1, !.docSize = 0, !.document = 0, !.text = <<>>,
              !.TopicsList = <<>>, !.t = 0, !.e = 0, !.out = <<>>]

SearchResult(r) ==
    [doc |-> wk[r].document,
     fileName |-> getFileNameFromPath(DocPath(wk[r].document)),
     TopicsList |-> wk[r].TopicsList]

\* lines 142, 80-84: the result is handed over and the sink is opened for
\* appending; when it cannot be opened the function returns
WriteOpen(r) ==
    /\ r \in Workers
    /\ pc[r] = "wopen"
    /\ IF env.sinkWritable
       THEN /\ wk' = [wk EXCEPT ![r].handed = Append(@, SearchResult(r))]
            /\ pc' = [pc EXCEPT ![r] = "wheader"]
       ELSE /\ wk' = [wk EXCEPT
                        ![r] = EndDoc([wk[r] EXCEPT
                                         !.handed = Append(@, SearchResult(r))])]
            /\ pc' = [pc EXCEPT
                        ![r] = AfterDoc(wk[r].i + 1, wk[r].numDocsToReceive)]
    /\ UNCHANGED <<sq, env, catalog, mgr, bcast, arrived, chan, sentLog, sink>>

\* line 86
HeaderText(res) == res.fileName \o <<Colon, Tab>>

\* line 88
EntryText(entry) == entry[1] \o <<Semi>> \o Decimal(entry[2]) \o <<Comma, Tab>>

WriteHeader(r) ==
    /\ r \in Workers
    /\ pc[r] = "wheader"
    /\ wk' = [wk EXCEPT ![r].out = @ \o HeaderText(SearchResult(r)), ![r].e = 1]
    /\ pc' = [pc EXCEPT ![r] = "wentry"]
    /\ UNCHANGED <<sq, env, catalog, mgr, bcast, arrived, chan, sentLog, sink>>

\* lines 87-90: one (topic, count) entry, or the line end after the last
WriteEntry(r) ==
    /\ r \in Workers
    /\ pc[r] = "wentry"
    /\ IF wk[r].e <= Len(wk[r].TopicsList)
       THEN /\ wk' = [wk EXCEPT
                        ![r].out = @ \o EntryText(wk[r].TopicsList[wk[r].e]),
                        ![r].e = @ + 1]
            /\ pc' = pc
       ELSE /\ wk' = [wk EXCEPT ![r].out = @ \o <<Newline>>]
            /\ pc' = [pc EXCEPT ![r] = "wclose"]
    /\ UNCHANGED <<sq, env, catalog, mgr, bcast, arrived, chan, sentLog, sink>>

\* the stream buffer is full and is written out: one append to the file.
\* Its capacity is the library's, so this can come after any insertion.
Spill(r) ==
    /\ r \in Workers
    /\ pc[r] \in {"wentry", "wclose"}
    /\ wk[r].out # <<>>
    /\ sink' = sink \o wk[r].out
    /\ wk' = [wk EXCEPT ![r].out = <<>>]
    /\ UNCHANGED <<sq, env, pc, catalog, mgr, bcast, arrived, chan, sentLog>>

\* line 91: close writes out what the buffer holds; back in main's loop
WriteClose(r) ==
    /\ r \in Workers
    /\ pc[r] = "wclose"
    /\ sink' = sink \o wk[r].out
    /\ wk' = [wk EXCEPT ![r] = EndDoc(wk[r])]
    /\ pc' = [pc EXCEPT ![r] = AfterDoc(wk[r].i + 1, wk[r].numDocsToReceive)]
    /\ UNCHANGED <<sq, env, catalog, mgr, bcast, arrived, chan, sentLog>>

\* ================= src/documentCategorization/main.cpp: single process
\* the state after process start of the single-process program; the MPI
\* ranks stand idle
StartSeq(e) ==
    /\ env = e
    /\ sq = [SqIdle EXCEPT !.pc = "readCatalog", !.run = 1]
    /\ pc = [r \in {0} |-> "idle"]
    /\ catalog = [r \in {0} |-> EmptyCatalog]
    /\ mgr = MgrInit
    /\ wk = <<>>
    /\ bcast = <<>>
    /\ arrived = {}
    /\ chan = <<>>
    /\ sentLog = <<>>
    /\ sink = <<>>

\* lines 36-43: ../catalog.txt cannot be opened; the exception leaves main
SeqReadCatalogMissing ==
    /\ sq.pc = "readCatalog"
    /\ ~env.catalogFile.exists
    /\ sq' = [sq EXCEPT !.pc = "terminated"]
    /\ UNCHANGED <<env, pc, catalog, mgr, wk, bcast, arrived, chan, sentLog, sink>>

\* lines 98-109: directory_iterator visits the files of the directory, the
\* documents 1..n, each once and in an order that is not specified
getAllFilesInDirectory(n) ==
    {files \in [1..n -> 1..n] :
        \A i, j \in 1..n : i # j => files[i] # files[j]}

\* lines 36-59, 188-194
SeqReadCatalog ==
    /\ sq.pc = "readCatalog"
    /\ env.catalogFile.exists
    /\ \E files \in getAllFilesInDirectory(NumDocs) :
          sq' = [sq EXCEPT !.catalog = readCatalog(env.catalogFile.lines),
                           !.files = files,
                           !.f = 1,
                           !.pc = "files"]
    /\ UNCHANGED <<env, pc, catalog, mgr, wk, bcast, arrived, chan, sentLog, sink>>

\* lines 201-203: the loop over the files has ended
SeqFilesDone ==
    /\ sq.pc = "files"
    /\ sq.f > NumDocs
    /\ sq' = [sq EXCEPT !.pc = "write"]
    /\ UNCHANGED <<env, pc, catalog, mgr, wk, bcast, arrived, chan, sentLog, sink>>

\* lines 62-67: the document cannot be opened; the exception leaves main
SeqOpenFails ==
    /\ sq.pc = "files"
    /\ sq.f <= NumDocs
    /\ ~env.docs[sq.files[sq.f]].readable
    /\ sq' = [sq EXCEPT !.pc = "terminated"]
    /\ UNCHANGED <<env, pc, catalog, mgr, wk, bcast, arrived, chan, sentLog, sink>>

\* lines 62-79
SeqOpenRead ==
    /\ sq.pc = "files"
    /\ sq.f <= NumDocs
    /\ env.docs[sq.files[sq.f]].readable
    /\ sq' = [sq EXCEPT !.text = Concat(env.docs[sq.files[sq.f]].lines),
                        !.cur = <<>>,
                        !.t = 1,
                        !.pc = "topic"]
    /\ UNCHANGED <<env, pc, catalog, mgr, wk, bcast, arrived, chan, sentLog, sink>>

\* mutant of SeqOccurrences: the vector is kept from topic to topic and
\* from document to document (a static or global vector)
SeqOccurrencesKept(occurrences) == occurrences

\* line 81: each topic of each document starts with its own empty vector
SeqOccurrences(occurrences) == <<>>

\* lines 80-82, 94, 202: the next topic, or the pair {fileName, matches}
SeqNextTopic ==
    /\ sq.pc = "topic"
    /\ IF sq.t <= Len(Topics(sq.catalog))
       THEN sq' = [sq EXCEPT !.occurrences = SeqOccurrences(@), !.count = 0,
                             !.k = 1, !.pc = "term"]
       ELSE sq' = [sq EXCEPT !.matches = Append(@, <<DocPath(sq.files[sq.f]),
                                                     sq.cur>>),
                             !.f = @ + 1,
                             !.text = <<>>, !.cur = <<>>, !.t = 0,
                             !.pc = "files"]
    /\ UNCHANGED <<env, pc, catalog, mgr, wk, bcast, arrived, chan, sentLog, sink>>

SeqCurTopic == Topics(sq.catalog)[sq.t]
SeqCurTerm  == sq.catalog[SeqCurTopic][sq.k]

\* line 91: SearchResult {topic, occurrences.size()}
SeqSearchResult(topic, occurrences) ==
    [topicName |-> topic, count |-> Len(occurrences)]

\* lines 83-84, 91: the next keyword and its first find, or emplace_back
SeqNextTerm ==
    /\ sq.pc = "term"
    /\ IF sq.k <= Len(sq.catalog[SeqCurTopic])
       THEN sq' = [sq EXCEPT !.pos = find(sq.text, SeqCurTerm, 0),
                             !.pc = "scan"]
       ELSE sq' = [sq EXCEPT
                     !.cur = Append(@, SeqSearchResult(SeqCurTopic, sq.occurrences)),
                     !.t = @ + 1,
                     !.occurrences = SeqOccurrences(@), !.count = 0, !.k = 0,
                     !.pc = "topic"]
    /\ UNCHANGED <<env, pc, catalog, mgr, wk, bcast, arrived, chan, sentLog, sink>>

\* lines 85-89: one turn of the while loop, or its end
SeqScan ==
    /\ sq.pc = "scan"
    /\ IF sq.pos # npos
       THEN sq' = [sq EXCEPT
                     !.occurrences = IF Len(@) < CountCap THEN Append(@, sq.pos) ELSE @,
                     !.pos = find(sq.text, SeqCurTerm, Resume(sq.pos, SeqCurTerm)),
                     !.count = IF @ < CountCap THEN @ + 1 ELSE @]
       ELSE sq' = [sq EXCEPT !.k = @ + 1, !.pc = "term"]
    /\ UNCHANGED <<env, pc, catalog, mgr, wk, bcast, arrived, chan, sentLog, sink>>

\* lines 125-131: the text written for one document
CsvRecord(match) ==
    match[1] \o <<Newline>>
        \o Concat([k \in 1..Len(match[2]) |->
                     match[2][k].topicName \o <<Comma>>
                         \o Decimal(match[2][k].count) \o <<Newline>>])
        \o <<Newline>>

\* lines 118-134: results.csv is written anew, unless it cannot be opened
SeqWriteResultsToFile ==
    /\ sq.pc = "write"
    /\ sq' = [sq EXCEPT
                !.csv = IF env.sinkWritable
                        THEN Concat([k \in 1..Len(sq.matches) |->
                                       CsvRecord(sq.matches[k])])
                        ELSE @,
                !.pc = "determine"]
    /\ UNCHANGED <<env, pc, catalog, mgr, wk, bcast, arrived, chan, sentLog, sink>>

\* mutant of RelevantTopic: an equal count also replaces the chosen topic
RECURSIVE RelevantTopicLast(_, _, _)
RelevantTopicLast(topics, maxCount, relevantTopic) ==
    IF topics = <<>> THEN relevantTopic
    ELSE IF Head(topics).count >= maxCount
         THEN RelevantTopicLast(Tail(topics), Head(topics).count,
                                Head(topics).topicName)
         ELSE RelevantTopicLast(Tail(topics), maxCount, relevantTopic)

\* lines 171-179: the scan over one document's (topic, count) list
RECURSIVE RelevantTopic(_, _, _)
RelevantTopic(topics, maxCount, relevantTopic) ==
    IF topics = <<>> THEN relevantTopic
    ELSE IF Head(topics).count > maxCount
         THEN RelevantTopic(Tail(topics), Head(topics).count, Head(topics).topicName)
         ELSE RelevantTopic(Tail(topics), maxCount, relevantTopic)

\* mutant of determineRelevantTopics: the running maximum starts below 0,
\* so a count of 0 is taken up
determineRelevantTopicsFromBelow(matches) ==
    [docName \in {matches[k][1] : k \in 1..Len(matches)} |->
        LET k == CHOOSE j \in 1..Len(matches) : matches[j][1] = docName
        IN  RelevantTopic(matches[k][2], -1, <<>>)]

\* lines 167-185
determineRelevantTopics(matches) ==
    [docName \in {matches[k][1] : k \in 1..Len(matches)} |->
        LET k == CHOOSE j \in 1..Len(matches) : matches[j][1] = docName
        IN  RelevantTopic(matches[k][2], 0, <<>>)]

\* lines 218-225
SeqDetermine ==
    /\ sq.pc = "determine"
    /\ sq' = [sq EXCEPT !.relevantTopics = determineRelevantTopics(sq.matches),
                        !.pc = "done"]
    /\ UNCHANGED <<env, pc, catalog, mgr, wk, bcast, arrived, chan, sentLog, sink>>

\* the program is started once more on the same catalog file and the same
\* directory: a new process, whose globals and locals are fresh;
\* results.csv stays on disk
SeqRunAgain ==
    /\ sq.pc = "done"
    /\ sq.run < env.runs
    /\ sq' = [SqIdle EXCEPT
                !.pc = "readCatalog",
                !.run = sq.run + 1,
                !.csv = sq.csv,
                !.previous = [files |-> sq.files, matches |-> sq.matches,
                              relevantTopics |-> sq.relevantTopics]]
    /\ UNCHANGED <<env, pc, catalog, mgr, wk, bcast, arrived, chan, sentLog, sink>>

\* ------------------------------------------------------------------- next
Next ==
    \/ \E r \in Ranks : SizeCheckAbort(r)
    \/ ManagerStart
    \/ \E r \in Workers : WorkerStart(r)
    \/ \E r \in Ranks : BarrierLeave(r)
    \/ \E r \in Ranks : Finalize(r)
    \/ ReadCatalogMissing
    \/ ReadCatalog
    \/ ManagerBcastSize
    \/ ManagerBcastData
    \/ ManagerBarrier
    \/ Enumerate
    \/ SendCount
    \/ SendDocSize
    \/ SendDoc
    \/ \E r \in Workers : WorkerBcastSize(r)
    \/ \E r \in Workers : WorkerBcastData(r)
    \/ \E r \in Workers : WorkerDecode(r)
    \/ \E r \in Workers : WorkerRecvCount(r)
    \/ \E r \in Workers : WorkerRecvDocSize(r)
    \/ \E r \in Workers : WorkerRecvDoc(r)
    \/ \E r \in Workers : OpenFails(r)
    \/ \E r \in Workers : OpenRead(r)
    \/ \E r \in Workers : NextTopic(r)
    \/ \E r \in Workers : NextTerm(r)
    \/ \E r \in Workers : Scan(r)
    \/ \E r \in Workers : WriteOpen(r)
    \/ \E r \in Workers : WriteHeader(r)
    \/ \E r \in Workers : WriteEntry(r)
    \/ \E r \in Workers : Spill(r)
    \/ \E r \in Workers : WriteClose(r)
    \/ SeqReadCatalogMissing
    \/ SeqReadCatalog
    \/ SeqFilesDone
    \/ SeqOpenFails
    \/ SeqOpenRead
    \/ SeqNextTopic
    \/ SeqNextTerm
    \/ SeqScan
    \/ SeqWriteResultsToFile
    \/ SeqDetermine
    \/ SeqRunAgain

\* ----------------------------------------------------------- environments
Letters == {97, 98}

\* sequences over S of length lo..hi
SeqsOf(S, lo, hi) == UNION {[1..n -> S] : n \in lo..hi}

\* a catalog file line "topic@%kw1,kw2"
RECURSIVE JoinComma(_)
JoinComma(kws) ==
    IF kws = <<>> THEN <<>>
    ELSE IF Len(kws) = 1 THEN kws[1]
    ELSE kws[1] \o <<Comma>> \o JoinComma(Tail(kws))

CatalogLine(topic, kws) == topic \o <<At, Percent>> \o JoinComma(kws)

MissingFile == [exists |-> FALSE, lines |-> <<>>]
File(lines) == [exists |-> TRUE, lines |-> lines]

Doc(lines) == [readable |-> TRUE, lines |-> lines]
UnreadableDoc == [readable |-> FALSE, lines |-> <<>>]

Env(size, catalogFile, docs, heapTail, bcastSync, sendSync, sinkWritable) ==
    [size |-> size, catalogFile |-> catalogFile, docs |-> docs,
     heapTail |-> heapTail, bcastSync |-> bcastSync, sendSync |-> sendSync,
     sinkWritable |-> sinkWritable, runs |-> 1]

NoTail(size) == [w \in 1..(size - 1) |-> <<>>]

\* the catalog "a@%a" and a document that reads "a"
RunCatalog == File(<<CatalogLine(<<97>>, <<<<97>>>>)>>)
RunDoc == Doc(<<<<97>>>>)

\* the dispatch profile: process counts, document counts and transports
\* vary; the catalog file is empty and the sink cannot be opened
DispatchEnvs ==
    {Env(n, File(<<>>), [d \in 1..nd |-> RunDoc], NoTail(n), bs, ss, FALSE) :
        n \in 1..MaxProcs, nd \in 0..MaxDocs, bs \in BOOLEAN, ss \in BOOLEAN}

\* the write profile: two workers classify and append to the sink
WriteEnvs ==
    {Env(3, RunCatalog, [d \in 1..nd |-> RunDoc], NoTail(3), FALSE, ss, TRUE) :
        nd \in 2..3, ss \in BOOLEAN}

\* runs that fail: no catalog file, a document that cannot be opened
FailEnvs ==
    {Env(n, MissingFile, [d \in 1..nd |-> RunDoc], NoTail(n), bs, ss, TRUE) :
        n \in 2..MaxProcs, nd \in 0..MaxDocs, bs \in BOOLEAN, ss \in BOOLEAN}
    \cup
    {Env(2, RunCatalog, docs, NoTail(2), FALSE, ss, TRUE) :
        docs \in {<<UnreadableDoc, RunDoc>>, <<RunDoc, UnreadableDoc, RunDoc>>},
        ss \in BOOLEAN}
    \cup
    {Env(3, RunCatalog, <<UnreadableDoc, RunDoc, RunDoc>>, NoTail(3), FALSE, ss,
         TRUE) : ss \in BOOLEAN}

\* the blocking profile: a catalog and documents that can be read, a
\* transport whose every call returns only when it is complete, and up to
\* two workers or none
BlockingEnvs ==
    {Env(n, RunCatalog, [d \in 1..nd |-> RunDoc], NoTail(n), TRUE, TRUE, sw) :
        n \in 1..3, nd \in 0..2, sw \in BOOLEAN}

RunEnvs == DispatchEnvs \cup WriteEnvs \cup FailEnvs \cup BlockingEnvs

\* a few runs that between them take every step of the program
CoverEnvs ==
    {Env(1, RunCatalog, <<RunDoc>>, NoTail(1), FALSE, FALSE, TRUE),
     Env(2, MissingFile, <<RunDoc>>, NoTail(2), FALSE, FALSE, TRUE),
     Env(2, RunCatalog, <<UnreadableDoc>>, NoTail(2), FALSE, FALSE, TRUE),
     Env(2, RunCatalog, <<RunDoc, RunDoc>>, NoTail(2), FALSE, FALSE, TRUE),
     Env(2, RunCatalog, <<RunDoc>>, NoTail(2), TRUE, TRUE, FALSE)}

\* the codec profile: one worker, no documents; the first catalog line is
\* any topic and any keyword part over "a" and the separators, a second
\* line "b@%b" may follow, and any bytes may lie behind the receive buffer
CodecChars == {97, Colon, Semi, Comma}
TailChars  == {97, Semi}

CodecFiles ==
    {File(<<CatalogLine(topic, <<keys>>)>> \o more) :
        topic \in SeqsOf(CodecChars, 0, MaxTopicLen),
        keys \in SeqsOf(CodecChars, 0, MaxKeysLen),
        more \in {<<>>, <<CatalogLine(<<98>>, <<<<98>>>>)>>}}
    \cup {File(<<>>)}

CodecEnvs ==
    {Env(2, f, <<>>, [w \in {1} |-> tail], FALSE, FALSE, TRUE) :
        f \in CodecFiles, tail \in SeqsOf(TailChars, 0, MaxTail)}

\* the matcher profile: one worker, one document; the text is any string
\* over "a", "b", the first topic "a" has one or two keywords of length 0..2
\* and a second topic "b" with keyword "b" may follow; the sink cannot be
\* opened
MatchKeywords == SeqsOf(Letters, 0, 2)

MatchFiles ==
    {File(<<CatalogLine(<<97>>, kws)>> \o more) :
        kws \in SeqsOf(MatchKeywords, 1, 2),
        more \in {<<>>, <<CatalogLine(<<98>>, <<<<98>>>>)>>}}

MatchEnvs ==
    {Env(2, f, <<Doc(<<text>>)>>, NoTail(2), FALSE, FALSE, FALSE) :
        f \in MatchFiles, text \in SeqsOf(Letters, 0, MaxTextLen)}

\* the single-process program is started on a catalog file and documents;
\* writable says whether results.csv can be opened, runs how many times
\* the program is started
SeqEnv(catalogFile, docs, writable, runs) ==
    [Env(1, catalogFile, docs, <<>>, FALSE, FALSE, writable) EXCEPT
        !.runs = runs]

\* a few runs of the single-process program that take its every step
CoverSeqEnvs ==
    {SeqEnv(MissingFile, <<RunDoc>>, TRUE, 1),
     SeqEnv(RunCatalog, <<RunDoc, UnreadableDoc>>, TRUE, 1),
     SeqEnv(RunCatalog, <<RunDoc, RunDoc>>, TRUE, 2),
     SeqEnv(RunCatalog, <<>>, FALSE, 1)}

\* catalog files at the edge: no line at all, and the line "@%b" whose
\* topic name is the empty string
EdgeFiles == {File(<<>>), File(<<CatalogLine(<<>>, <<<<98>>>>)>>)}

\* the matcher profile of the single-process program
MatchSeqEnvs ==
    {SeqEnv(f, <<Doc(<<text>>)>>, TRUE, 1) :
        f \in MatchFiles, text \in SeqsOf(Letters, 0, MaxTextLen)}
    \cup
    {SeqEnv(f, <<Doc(<<text>>)>>, TRUE, 1) :
        f \in EdgeFiles, text \in SeqsOf(Letters, 0, 1)}

\* the rerun profile of the single-process program: the catalog "a@%a",
\* "b@%b", two or three documents with texts of DetTexts, started twice
DetCatalog ==
    File(<<CatalogLine(<<97>>, <<<<97>>>>), CatalogLine(<<98>>, <<<<98>>>>)>>)

DetTexts == {<<97>>, <<97, 98>>, <<98, 98>>}

DetSeqEnvs ==
    {SeqEnv(DetCatalog, [d \in 1..Len(texts) |-> Doc(<<texts[d]>>)], TRUE, 2) :
        texts \in SeqsOf(DetTexts, 2, 3)}

Init ==
    \/ \E e \in RunEnvs : Start(e)
    \/ \E e \in CoverSeqEnvs \cup DetSeqEnvs : StartSeq(e)

InitCodec ==
    \/ \E e \in CodecEnvs \cup CoverEnvs : Start(e)
    \/ \E e \in CoverSeqEnvs : StartSeq(e)

InitMatch ==
    \/ \E e \in MatchEnvs \cup CoverEnvs : Start(e)
    \/ \E e \in MatchSeqEnvs \cup CoverSeqEnvs : StartSeq(e)

Spec == Init /\ [][Next]_vars

SpecCodec == InitCodec /\ [][Next]_vars

SpecMatch == InitMatch /\ [][Next]_vars

\* ================================================================ claims
\* worker w holds the complete encoded catalog (its second MPI_Bcast is done)
HasCatalog(w) == pc[w] \notin {"start", "barrier", "bcastSize", "bcastData"}

\* process r has returned from MPI_Barrier
CrossedBarrier(r) ==
    IF r = 0
    THEN pc[0] \notin {"start", "readCatalog", "bcastSize", "bcastData",
                       "barrierCall", "barrier", "terminated", "aborted"}
    ELSE pc[r] \notin {"start", "barrier", "aborted"}

\* worker w is inside classifyDocument or has been through it
Classifies(w) ==
    \/ pc[w] \in {"open", "topic", "term", "scan", "wopen", "wheader",
                  "wentry", "wclose"}
    \/ wk[w].i > 0
    \/ wk[w].handed # <<>>

\* C1: the manager sends no assignment message (size or document) until
\* every worker has received the complete catalog and every process has
\* crossed the barrier.
C1_NoDispatchBeforeCatalog ==
    sentLog # <<>> =>
        /\ \A w \in Workers : HasCatalog(w)
        /\ \A r \in Ranks : CrossedBarrier(r)

\* C2: no worker is classifying, or has classified, a document while some
\* other worker has not yet received the full catalog.
C2_NoClassifyBeforeAllHaveCatalog ==
    \A w \in Workers :
        Classifies(w) => \A v \in Workers : HasCatalog(v)

RECURSIVE SumSeq(_)
SumSeq(q) == IF q = <<>> THEN 0 ELSE Head(q) + SumSeq(Tail(q))

\* the assignment sizes announced so far, in the order sent
CountSends == SelectSeq(sentLog, LAMBDA m : m.kind = "count")

\* the document identifiers sent so far, in the order sent
DocSends == SelectSeq(sentLog, LAMBDA m : m.kind = "doc")

DispatchDone == pc[0] \in {"finalize", "done"}

\* C3: with base = N / W and rem = N % W the manager announces base + 1 to
\* workers 1..rem and base to workers rem+1..W, one size per worker in rank
\* order; the sizes sum to N and differ by at most 1.
C3_PartitionSizes ==
    LET W    == env.size - 1
        base == NumDocs \div W
        rem  == NumDocs % W
    IN  /\ \A k \in 1..Len(CountSends) :
            /\ CountSends[k].to = k
            /\ CountSends[k].val = IF k <= rem THEN base + 1 ELSE base
        /\ DispatchDone =>
            /\ Len(CountSends) = W
            /\ SumSeq([k \in 1..W |-> CountSends[k].val]) = NumDocs
            /\ \A k, l \in 1..W : CountSends[k].val - CountSends[l].val <= 1

\* C3's case: dispatch is complete for 3 workers and 4 documents (2, 1, 1)
C3_Witness ==
    /\ DispatchDone
    /\ env.size = 4
    /\ NumDocs = 4
    /\ [k \in 1..3 |-> CountSends[k].val] = <<2, 1, 1>>

\* C4: every document of the enumerated list is sent to exactly one worker;
\* the documents go out in list order, each worker's documents are a
\* contiguous slice that ends where the next worker's begins, and the slice
\* has the size announced to that worker.
C4_ExclusiveContiguous ==
    /\ \A k \in 1..Len(DocSends) : DocSends[k].val = k
    /\ \A k, l \in 1..Len(DocSends) :
          k <= l => DocSends[k].to <= DocSends[l].to
    /\ DispatchDone =>
          /\ Len(DocSends) = NumDocs
          /\ \A w \in Workers :
                Cardinality({k \in 1..Len(DocSends) : DocSends[k].to = w})
                    = CountSends[w].val

\* C4's case: dispatch is complete and two workers own two documents each
C4_Witness ==
    /\ DispatchDone
    /\ env.size = 3
    /\ NumDocs = 4
    /\ [k \in 1..4 |-> DocSends[k].to] = <<1, 1, 2, 2>>

\* C9: when the catalog file is missing the manager ends with the fatal
\* error before any broadcast or send: no worker receives a catalog or an
\* assignment, nothing is classified and the sink stays as it was.
C9_MissingCatalogStopsRun ==
    (env.size >= 2 /\ ~env.catalogFile.exists) =>
        /\ pc[0] \in {"start", "readCatalog", "terminated"}
        /\ bcast = <<>>
        /\ sentLog = <<>>
        /\ sink = <<>>
        /\ \A w \in Workers :
              /\ pc[w] \in {"start", "barrier"}
              /\ catalog[w] = EmptyCatalog
              /\ wk[w] = WorkerInit
              /\ chan[w] = <<>>

\* C9's case: the manager has ended on the missing catalog while the
\* workers wait in the barrier and documents are there to classify
C9_Witness ==
    /\ ~env.catalogFile.exists
    /\ env.size = 3
    /\ NumDocs = 2
    /\ pc[0] = "terminated"
    /\ \A w \in Workers : pc[w] = "barrier"

\* the line writeResultsToFile makes of a result, without its line end
Serialize(res) ==
    HeaderText(res)
        \o Concat([k \in 1..Len(res.TopicsList) |-> EntryText(res.TopicsList[k])])

\* the finished lines of the sink: all that a line end terminates
SinkLines ==
    LET parts == tokenize(sink, <<Newline>>)
    IN  SubSeq(parts, 1, Len(parts) - 1)

\* C5: every line of the sink is wholly the serialization of one result
\* that one worker produced, whatever the interleaving of the workers'
\* write steps.
C5_NoInterleavedLines ==
    \A k \in 1..Len(SinkLines) :
        \E w \in Workers : \E h \in 1..Len(wk[w].handed) :
            SinkLines[k] = Serialize(wk[w].handed[h])

\* worker w has run its decode loop
Decoded(w) ==
    pc[w] \notin {"start", "barrier", "bcastSize", "bcastData", "decode"}

Separators == {Colon, Comma, Semi}

NoSeparator(token) == \A k \in 1..Len(token) : token[k] \notin Separators

\* no topic name and no keyword of c holds ':', ',' or ';'
SeparatorFree(c) ==
    \A topic \in DOMAIN c :
        /\ NoSeparator(topic)
        /\ \A k \in 1..Len(c[topic]) : NoSeparator(c[topic][k])

\* C6: for a catalog whose topic names and keywords hold no separator, the
\* catalog a worker decodes from the broadcast buffer equals the manager's
\* (same topics, same keyword lists in the same order).
C6_RoundTrip ==
    \A w \in Workers :
        (Decoded(w) /\ SeparatorFree(catalog[0])) => catalog[w] = catalog[0]

\* C10: a catalog with a separator inside a topic name or keyword is never
\* encoded and decoded into a different catalog on a worker without an
\* error (stated for a buffer that a NUL follows directly).
C10_SeparatorNotSilent ==
    \A w \in Workers :
        (Decoded(w) /\ ~SeparatorFree(catalog[0]) /\ env.heapTail[w] = <<>>)
            => catalog[w] = catalog[0]

\* the text classifyDocument reads for document d
TextOf(d) == Concat(env.docs[d].lines)

\* the positions where kw occurs in text
Occurrences(text, kw) == {p \in 0..(Len(text) - Len(kw)) : MatchAt(text, kw, p)}

\* the occurrences a leftmost non-overlapping scan finds: an occurrence is
\* taken exactly when no taken occurrence before it reaches into it
LeftmostNonOverlapping(text, kw) ==
    CHOOSE G \in SUBSET Occurrences(text, kw) :
        \A p \in Occurrences(text, kw) :
            p \in G <=> ~\E q \in G : q < p /\ p < q + Len(kw)

NonOverlapCount(text, kw) == Cardinality(LeftmostNonOverlapping(text, kw))

\* the count both programs must give topic `topic` of catalog c on text
ExpectedCount(c, topic, text) ==
    SumSeq([j \in 1..Len(c[topic]) |-> NonOverlapCount(text, c[topic][j])])

NonEmptyKeywords(c, topic) == \A j \in 1..Len(c[topic]) : c[topic][j] # <<>>

\* C7: for non-empty keywords, a keyword's count is the number of
\* occurrences of the leftmost scan that resumes at occurrence start +
\* keyword length, and a topic's count is the sum over its keywords, each
\* scanned over the whole text; in classifyDocument and in
\* findAllOccurrences.
C7_NonOverlappingCount ==
    /\ \A w \in Workers : \A h \in 1..Len(wk[w].handed) :
          LET res == wk[w].handed[h]
          IN  \A k \in 1..Len(res.TopicsList) :
                  NonEmptyKeywords(catalog[w], res.TopicsList[k][1]) =>
                      res.TopicsList[k][2] =
                          ExpectedCount(catalog[w], res.TopicsList[k][1],
                                        TextOf(res.doc))
    /\ \A d \in 1..Len(sq.matches) : \A k \in 1..Len(sq.matches[d][2]) :
          LET m == sq.matches[d][2][k]
          IN  NonEmptyKeywords(sq.catalog, m.topicName) =>
                  m.count = ExpectedCount(sq.catalog, m.topicName,
                                          TextOf(sq.files[d]))

\* C7's case: text "aaaa" and topic "a" with keywords "aa", "a" give
\* 2 + 4 = 6
C7_Witness ==
    \E w \in Workers : \E h \in 1..Len(wk[w].handed) :
        /\ TextOf(wk[w].handed[h].doc) = <<97, 97, 97, 97>>
        /\ catalog[w] = (<<97>> :> <<<<97, 97>>, <<97>>>>)
        /\ wk[w].handed[h].TopicsList = <<<<<<97>>, 6>>>>

\* names, the topic names of a result's entries in order, are the topics
\* of catalog c, once each and ascending
OnePerTopic(c, names) ==
    /\ Len(names) = Cardinality(DOMAIN c)
    /\ {names[k] : k \in 1..Len(names)} = DOMAIN c
    /\ \A k, l \in 1..Len(names) : k < l => LexLess(names[k], names[l])

\* C8: a classification result holds exactly one (topic, count) entry for
\* each topic of the catalog, also for topics without a match, in the
\* catalog's iteration order (ascending topic name), every count >= 0; in
\* classifyDocument and in findAllOccurrences.
C8_OneEntryPerTopic ==
    /\ \A w \in Workers : \A h \in 1..Len(wk[w].handed) :
          LET list == wk[w].handed[h].TopicsList
          IN  /\ OnePerTopic(catalog[w], [k \in 1..Len(list) |-> list[k][1]])
              /\ \A k \in 1..Len(list) : list[k][2] >= 0
    /\ \A d \in 1..Len(sq.matches) :
          LET list == sq.matches[d][2]
          IN  /\ OnePerTopic(sq.catalog, [k \in 1..Len(list) |-> list[k].topicName])
              /\ \A k \in 1..Len(list) : list[k].count >= 0

\* C8's case: a result for two topics, the first with matches and the
\* second with none
C8_Witness ==
    \E w \in Workers : \E h \in 1..Len(wk[w].handed) :
        LET list == wk[w].handed[h].TopicsList
        IN  /\ Len(list) = 2
            /\ list[1][2] > 0
            /\ list[2] = <<<<98>>, 0>>

\* the single-process program has run to its end
SeqDone == sq.pc = "done"

\* the largest count of a (topic, count) list, 0 for the empty list
MaxCount(list) ==
    IF list = <<>> THEN 0
    ELSE LET counts == {list[k].count : k \in 1..Len(list)}
         IN  CHOOSE m \in counts : \A c \in counts : c <= m

\* the first place of the list whose count is greater than every count
\* before it and not less than any count after it
FirstMax(list) ==
    CHOOSE k \in 1..Len(list) :
        /\ \A j \in 1..(k - 1) : list[j].count < list[k].count
        /\ \A j \in (k + 1)..Len(list) : list[j].count <= list[k].count

\* C11: in the single-process program the dominant topic of a document is
\* the topic at the first place of its (topic, count) list that reaches
\* the largest count: a later topic replaces the chosen one only with a
\* strictly greater count, so of the topics sharing the maximum the
\* earliest in iteration order is chosen.
C11_FirstMaximumWins ==
    SeqDone =>
        \A d \in 1..Len(sq.matches) :
            LET list == sq.matches[d][2]
            IN  MaxCount(list) > 0 =>
                    sq.relevantTopics[sq.matches[d][1]]
                        = list[FirstMax(list)].topicName

\* C11's case: the counts {a: 2, b: 2} in that order give a
C11_Witness ==
    /\ SeqDone
    /\ \E d \in 1..Len(sq.matches) :
          /\ [k \in 1..Len(sq.matches[d][2]) |-> sq.matches[d][2][k].count]
                = <<2, 2>>
          /\ sq.relevantTopics[sq.matches[d][1]] = <<97>>

\* the documents sent to worker w that cannot be opened
Unreadable(w) ==
    {d \in 1..NumDocs :
        /\ ~env.docs[d].readable
        /\ \E k \in 1..Len(DocSends) : DocSends[k].val = d /\ DocSends[k].to = w}

\* the sink holds the start of a result line for document d
HasLineOf(d) ==
    find(sink, HeaderText([fileName |-> getFileNameFromPath(DocPath(d))]), 0)
        # npos

\* document d has gone to a worker other than w
SentElsewhere(d, w) ==
    \E k \in 1..Len(DocSends) : DocSends[k].val = d /\ DocSends[k].to # w

\* C12: a document of worker w's assignment that cannot be opened is fatal
\* to w: once w has tried to open it w has ended with the error, w takes up
\* no later document, no result of w is for that document or a later one,
\* and the sink holds no line of w for it or for the rest of w's
\* assignment.
C12_OpenFailureFatal ==
    \A w \in Workers : \A d \in Unreadable(w) :
        /\ wk[w].document <= d
        /\ (wk[w].document = d /\ pc[w] # "open") => pc[w] = "terminated"
        /\ \A h \in 1..Len(wk[w].handed) : wk[w].handed[h].doc < d
        /\ \A d2 \in d..NumDocs : ~SentElsewhere(d2, w) => ~HasLineOf(d2)

\* C12's case: the one worker has written the line of document 1 and has
\* ended on document 2, with document 3 of its assignment sent to it
C12_Witness ==
    /\ env.size = 2
    /\ NumDocs = 3
    /\ Unreadable(1) = {2}
    /\ Len(DocSends) = 3
    /\ pc[1] = "terminated"
    /\ Len(wk[1].handed) = 1
    /\ sink = Serialize(wk[1].handed[1]) \o <<Newline>>

\* the result records of a run, whatever their order
RecordSet(matches) == {matches[k] : k \in 1..Len(matches)}

\* C13: when the single-process program is run again over the same catalog
\* and the same documents, whatever order the directory gives the documents
\* in, the later run ends with the same set of result records (document
\* name with its ordered topic/count list) and the same dominant topic for
\* every document as the run before it.
C13_RunsAgree ==
    (SeqDone /\ sq.run > 1) =>
        /\ RecordSet(sq.matches) = RecordSet(sq.previous.matches)
        /\ sq.relevantTopics = sq.previous.relevantTopics

\* C13's case: the second run over three documents took them in another
\* order than the first, and the documents differ in their dominant topic
C13_Witness ==
    /\ SeqDone
    /\ sq.run = 2
    /\ NumDocs = 3
    /\ sq.files # sq.previous.files
    /\ sq.matches # sq.previous.matches
    /\ \E d1, d2 \in DOMAIN sq.relevantTopics :
          sq.relevantTopics[d1] = <<97>> /\ sq.relevantTopics[d2] = <<98>>

\* the manager and every worker have finished
AllFinished == \A r \in Ranks : pc[r] = "done"

\* a run of the MPI program with at least one worker, a catalog file whose
\* keywords are not empty, documents that can all be opened, and a
\* transport whose broadcasts and sends block until they are complete
BlockingRun ==
    /\ sq.pc = "idle"
    /\ env.size >= 2
    /\ env.catalogFile.exists
    /\ \A topic \in DOMAIN readCatalog(env.catalogFile.lines) :
          NonEmptyKeywords(readCatalog(env.catalogFile.lines), topic)
    /\ \A d \in 1..NumDocs : env.docs[d].readable
    /\ env.bcastSync
    /\ env.sendSync

\* C14: in such a run no process waits forever: as long as the manager and
\* the workers have not all finished, some process can take its next step
\* (the run has no cycle, so it then reaches the end).
C14_NoProcessWaitsForever ==
    BlockingRun => (AllFinished \/ ENABLED <<Next>>_vars)

\* what the manager has sent to worker w, in the order sent
SentTo(w) == SelectSeq(sentLog, LAMBDA m : m.to = w)

\* the document identifiers sent to worker w, in the order sent
DocsSentTo(w) ==
    LET docs == SelectSeq(SentTo(w), LAMBDA m : m.kind = "doc")
    IN  [k \in 1..Len(docs) |-> docs[k].val]

\* the kind of message a worker waits for in each of its receives
Expects(w) ==
    CASE pc[w] = "recvCount"   -> "count"
      [] pc[w] = "recvDocSize" -> "docSize"
      [] pc[w] = "recvDoc"     -> "doc"
      [] OTHER                 -> "none"

\* worker w has received its assignment size
HasCount(w) ==
    pc[w] \notin {"start", "barrier", "bcastSize", "bcastData", "decode",
                  "recvCount"}

\* worker w gets the size first and then the documents in the order sent
ReceivesInOrder(w) ==
    /\ SentTo(w) # <<>> => Head(SentTo(w)).kind = "count"
    /\ (Expects(w) # "none" /\ chan[w] # <<>>) => Head(chan[w]).kind = Expects(w)
    /\ HasCount(w) => wk[w].numDocsToReceive = Head(SentTo(w)).val
    /\ \A h \in 1..Len(wk[w].handed) : wk[w].handed[h].doc = DocsSentTo(w)[h]
    /\ pc[w] \in {"finalize", "done"} =>
          /\ Len(DocsSentTo(w)) = wk[w].numDocsToReceive
          /\ Len(wk[w].handed) = wk[w].numDocsToReceive

\* the line the owner of document d has made of its result
LineOf(d) ==
    LET w == CHOOSE v \in Workers : \E k \in 1..Len(DocsSentTo(v)) :
                 DocsSentTo(v)[k] = d
        h == CHOOSE j \in 1..Len(wk[w].handed) : wk[w].handed[j].doc = d
    IN  Serialize(wk[w].handed[h])

\* the sink is made of whole lines, one for every document, each the line
\* of the document's owner
OneLinePerDocument ==
    /\ sink = <<>> \/ sink[Len(sink)] = Newline
    /\ Len(SinkLines) = NumDocs
    /\ \A d \in 1..NumDocs : \E k \in 1..Len(SinkLines) : SinkLines[k] = LineOf(d)

\* C15: every worker receives its assignment size first and then exactly
\* that many documents in the order sent; when the run is complete no
\* message is left unreceived and the sink holds exactly one result line
\* for each enumerated document, the line of the worker that owns it
\* (stated for documents that can be opened and a sink that can be opened).
C15_DispatchComplete ==
    (sq.pc = "idle" /\ env.size >= 2 /\ env.sinkWritable
        /\ \A d \in 1..NumDocs : env.docs[d].readable) =>
        /\ \A w \in Workers : ReceivesInOrder(w)
        /\ AllFinished =>
              /\ \A w \in Workers : chan[w] = <<>>
              /\ OneLinePerDocument

\* topic `topic` of catalog c has no usable keyword: its list is empty or
\* holds empty strings only
NoUsableKeyword(c, topic) == \A j \in 1..Len(c[topic]) : c[topic][j] = <<>>

\* every entry made so far for a topic without a usable keyword counts 0
UnusableCountZero ==
    /\ \A w \in Workers : \A k \in 1..Len(wk[w].TopicsList) :
          NoUsableKeyword(catalog[w], wk[w].TopicsList[k][1]) =>
              wk[w].TopicsList[k][2] = 0
    /\ \A k \in 1..Len(sq.cur) :
          NoUsableKeyword(sq.catalog, sq.cur[k].topicName) => sq.cur[k].count = 0

\* a turn of the scan loop leaves the loop or resumes behind the
\* occurrence it has just counted, so the loop ends within the text
ScanAdvances ==
    /\ \A w \in Workers :
          (Scan(w) /\ wk[w].pos # npos) =>
              (wk'[w].pos = npos \/ wk'[w].pos > wk[w].pos)
    /\ (SeqScan /\ sq.pos # npos) => (sq'.pos = npos \/ sq'.pos > sq.pos)

\* C16: matching terminates for every text and every catalog the loader
\* can produce, a keyword list holding the empty string included: every
\* turn of a scan loop moves on in the text, and a topic without a usable
\* keyword gets count 0; in classifyDocument and in findAllOccurrences.
C16_MatchingTerminates == [][ScanAdvances /\ UnusableCountZero']_vars

\* every count of the list is 0 (so also when the list is empty)
AllZero(list) == \A k \in 1..Len(list) : list[k].count = 0

\* topic is the name of an entry of the list that counts more than 0
NamesCounted(list, topic) ==
    \E k \in 1..Len(list) : list[k].topicName = topic /\ list[k].count > 0

\* C17 as stated: in the single-process program a document whose counts
\* are all 0 (or whose list is empty) gets the empty string as dominant
\* topic, never the name of a catalog topic; every other document gets the
\* name of a topic of its own list whose count is > 0.
C17_NoTopicWhenAllZero ==
    SeqDone =>
        \A d \in 1..Len(sq.matches) :
            LET list  == sq.matches[d][2]
                topic == sq.relevantTopics[sq.matches[d][1]]
            IN  IF AllZero(list)
                THEN topic = <<>> /\ topic \notin DOMAIN sq.catalog
                ELSE NamesCounted(list, topic)

\* C17 as amended: a document whose counts are all 0 (or whose list is
\* empty) gets the empty string as dominant topic, which is the name of a
\* catalog topic only when the catalog holds a topic of that name; every
\* other document gets the name of a topic of its own list whose count is
\* > 0.
C17_EmptyStringWhenAllZero ==
    SeqDone =>
        \A d \in 1..Len(sq.matches) :
            LET list  == sq.matches[d][2]
                topic == sq.relevantTopics[sq.matches[d][1]]
            IN  IF AllZero(list)
                THEN /\ topic = <<>>
                     /\ topic \in DOMAIN sq.catalog
                            => <<>> \in {list[k].topicName : k \in 1..Len(list)}
                ELSE NamesCounted(list, topic)

\* C17's case: a document without a match for either of two topics has the
\* empty string as its dominant topic
C17_Witness ==
    /\ SeqDone
    /\ \E d \in 1..Len(sq.matches) :
          /\ [k \in 1..Len(sq.matches[d][2]) |-> sq.matches[d][2][k].count]
                = <<0, 0>>
          /\ sq.relevantTopics[sq.matches[d][1]] = <<>>

\* C18: a run of the MPI program started with fewer than 2 processes (no
\* worker) aborts before the catalog is loaded: rank 0 is at the start or
\* aborted, its catalog is empty, nothing is broadcast, the partition is
\* not computed (no division by size - 1 = 0), nothing is sent, no barrier
\* is entered and the sink is untouched.
C18_NoWorkerAborts ==
    (sq.pc = "idle" /\ env.size < 2) =>
        /\ pc[0] \in {"start", "aborted"}
        /\ catalog[0] = EmptyCatalog
        /\ bcast = <<>>
        /\ arrived = {}
        /\ mgr = MgrInit
        /\ sentLog = <<>>
        /\ wk = <<>>
        /\ sink = <<>>

\* C18's case: the single process has aborted although the catalog file
\* and two documents are there
C18_Witness ==
    /\ sq.pc = "idle"
    /\ env.size = 1
    /\ env.catalogFile = RunCatalog
    /\ NumDocs = 2
    /\ pc[0] = "aborted"

====
